---------------------------- MODULE Spec2Model ----------------------------
(***************************************************************************)
(* Motion cadence synchronisation engine of src/frontend/app.js:           *)
(* handleAcceleration fills normData/intervalData, calculateSPM turns a    *)
(* full frame into a smoothed cadence, updateSongBpm polls the track tempo *)
(* and updateSyncDisplay presents the sync score.  The same page checks   *)
(* the session and builds the web player (checkSession, initPlayer), and   *)
(* the server of src/unnamed/part_000 holds the OAuth tokens.              *)
(*                                                                         *)
(* Numbers.  Accelerations are held as integers in tenths of m/s^2 and     *)
(* intervals in milliseconds.  The JavaScript computes in IEEE doubles;    *)
(* here every comparison and rounding is computed exactly over the         *)
(* rationals, with the divisions cleared:                                  *)
(*   n = |data|, S = sum, Q = sum of squares, V = n*Q - S*S = n^2*variance *)
(*   variance < 0.1 (m/s^2)^2      <=>  V < 10*n^2      (tenths squared)   *)
(*   x > avg + 0.7*stdDev          <=>  d > 0 /\ 100*d^2 > 49*V, d = n*x-S *)
(*   x < avg + 0.7*stdDev          <=>  d <= 0 \/ 100*d^2 < 49*V           *)
(*   Math.round(a/b), b > 0        <=>  (2*a + b) \div (2*b)               *)
(* The inputs are chosen so that the square root of x^2+y^2+z^2 is an      *)
(* integer number of tenths and no product leaves the 32-bit range.        *)
(***************************************************************************)
EXTENDS Integers, Sequences, FiniteSets, TLC

VARIABLES
    normData,        \* app.js:1   magnitudes of the frame being filled
    intervalData,    \* app.js:2   intervals (ms) of the frame being filled
    spmHistory,      \* app.js:3   the last raw cadences, at most 3
    currentSongBpm,  \* app.js:4   tempo of the playing track, 0 until fetched
    sensor,          \* startSensor: "idle", "asking", "on" or "denied"
    timer,           \* startSensor: the 5 s interval timer is running
    fetching,        \* updateSongBpm calls awaiting fetch()         (app.js:390)
    parsing,         \* updateSongBpm calls awaiting res.json()      (app.js:391)
    unhandled,       \* an exception escaped an updateSongBpm call
    outcome,         \* how the last finished updateSongBpm call ended
    spmText,         \* innerText of #current-spm
    syncText,        \* innerText of #sync-rate, the number before "%"
    circleColor,     \* style.borderColor of #sync-circle
    bpmText,         \* innerText of #bpm-val
    gait,            \* environment: the motion pattern of the current frame
    polls,           \* environment: timer ticks so far
    frames,          \* environment: frames processed so far
    call,            \* the last calculateSPM call: its arguments and result
    raws,            \* every raw cadence pushed to spmHistory, in push order
    accepted,        \* events that passed the guard of app.js:347 so far
    stored,          \* the bpm the last successful poll delivered, and the
                     \* number of other polls in flight when it did
    flawed,          \* the last event with a part missing that arrived when
                     \* the buffer lacked one sample
    state,           \* app.js:16-21  deviceId, player, authenticated, sdkReady
    session,         \* checkSession: "unloaded", "awaiting" or "done"
    tokenWait,       \* initPlayer calls awaiting fetchAccessToken (app.js:250)
    transfers,       \* transferPlayback calls awaiting apiSend   (app.js:100)
    section,         \* the section shown: "login", "app", "" as loaded
    status,          \* the message last given to setStatus
    built,           \* state.authenticated at each new Spotify.Player, in order
    initCalls,       \* each initPlayer call: its caller, and whether it got
                     \* past the two guards
    accessToken,          \* part_000:22
    refreshToken,         \* part_000:23
    accessTokenExpiresAt, \* part_000:24, ms
    oauthState,           \* part_000:25
    credentials,     \* server: CLIENT_ID and CLIENT_SECRET are both set
    exchanges,       \* /callback requests awaiting exchangeCodeForToken, each
                     \* with the oauthState it was compared with
    refreshes,       \* getAccessToken calls awaiting refreshAccessToken
    now,             \* server: Date.now(), ms
    reply,           \* server: the last response sent, and the request answered
    logins           \* server: /login requests so far

vars == <<normData, intervalData, spmHistory, currentSongBpm, sensor, timer,
          fetching, parsing, unhandled, outcome, spmText, syncText, circleColor,
          bpmText, gait, polls, frames, call, raws, accepted, stored, flawed,
          state, session, tokenWait, transfers, section, status, built,
          initCalls, accessToken, refreshToken, accessTokenExpiresAt,
          oauthState, credentials, exchanges, refreshes, now, reply, logins>>

serverVars == <<accessToken, refreshToken, accessTokenExpiresAt, oauthState,
                credentials, exchanges, refreshes, now, reply, logins>>

pageVars == <<state, session, tokenWait, transfers, section, status, built,
              initCalls>>

\* A value that may be absent (null, undefined, an element with no text) is a
\* sequence: <<>> when absent, <<v>> when present.
None    == <<>>
Some(v) == <<v>>

NUM_DATA_PER_FRAME == 200

\* reply before any response
NoReply == [n |-> 0, route |-> "", status |-> 0, code |-> None,
            state |-> None, latest |-> None]

\* The server as started, part_000:22-25, with its credentials set.
ServerInit ==
    /\ accessToken = None
    /\ refreshToken = None
    /\ accessTokenExpiresAt = 0
    /\ oauthState = None
    /\ exchanges = <<>>
    /\ refreshes = 0
    /\ now = 0
    /\ reply = NoReply
    /\ logins = 0

\* const state = { ... }, app.js:16-21
StateInit == [deviceId |-> None, player |-> None, authenticated |-> FALSE,
              sdkReady |-> FALSE]

\* The page's player side as loaded, before DOMContentLoaded.
PageInit ==
    /\ state = StateInit
    /\ session = "unloaded"
    /\ tokenWait = 0
    /\ transfers = 0
    /\ section = ""
    /\ status = ""
    /\ built = <<>>
    /\ initCalls = <<>>

-----------------------------------------------------------------------------
(* Arithmetic helpers *)

\* The recursions below split their range in halves, so that a frame of 200
\* samples is summed and walked in order with a nesting depth of 8.

RECURSIVE SumRange(_, _, _)
SumRange(s, lo, hi) ==
    IF lo > hi THEN 0
    ELSE IF lo = hi THEN s[lo]
    ELSE LET mid == (lo + hi) \div 2
         IN  SumRange(s, lo, mid) + SumRange(s, mid + 1, hi)

\* data.reduce((a, b) => a + b, 0)
Sum(s) == SumRange(s, 1, Len(s))

\* the sum of the squares of s
SumSq(s) == SumRange([i \in 1..Len(s) |-> s[i] * s[i]], 1, Len(s))

\* Math.round(a / b) for a >= 0, b > 0: halves round up
Round(a, b) == (2 * a + b) \div (2 * b)

Abs(x) == IF x < 0 THEN 0 - x ELSE x

Max(a, b) == IF a > b THEN a ELSE b

\* Math.sqrt on the perfect squares the inputs produce
Sqrt(n) == CHOOSE r \in 0..n : r * r = n

\* The element of a singleton set.  A value bound through a singleton set,
\* { e(x) : x \in {v} } or \E x \in {v} : A(x), is computed once, where a LET
\* definition is computed again at each of its uses.
Only(S) == CHOOSE x \in S : TRUE


-----------------------------------------------------------------------------
(* calculateSPM, app.js:366-385 *)

\* n^2 * variance of data (app.js:367-368), in tenths squared
VarianceNum(data) == Len(data) * SumSq(data) - Sum(data) * Sum(data)

\* variance < 0.1 (app.js:369)
IsStationary(data) == VarianceNum(data) < 10 * Len(data) * Len(data)

\* x > threshold, threshold = avg + 0.7 * stdDev (app.js:371-372, 377);
\* n, S, V are the length, the sum and VarianceNum of the frame
Above(x, n, S, V) ==
    LET d == n * x - S IN d > 0 /\ 100 * d * d > 49 * V

\* x < threshold (app.js:378)
Below(x, n, S, V) ==
    LET d == n * x - S IN d < 0 \/ (d >= 0 /\ 100 * d * d < 49 * V)

\* the "&& !cross" of app.js:377 left out: every sample above counts
StepBodyEverySample(data, n, S, V, i, st) ==
    IF Above(data[i], n, S, V)
    THEN [steps |-> st.steps + 1, cross |-> TRUE]
    ELSE IF Below(data[i], n, S, V)
         THEN [steps |-> st.steps, cross |-> FALSE]
         ELSE st

\* One iteration of the for loop, app.js:377-378, at the 1-based index i
\* (data[i-1] in the source), from the locals st = [steps, cross].
StepBody(data, n, S, V, i, st) ==
    IF Above(data[i], n, S, V) /\ ~st.cross
    THEN [steps |-> st.steps + 1, cross |-> TRUE]
    ELSE IF Below(data[i], n, S, V)
         THEN [steps |-> st.steps, cross |-> FALSE]
         ELSE st

RECURSIVE StepLoop(_, _, _, _, _, _, _)
\* The iterations lo..hi of the loop in order, from the locals st.
StepLoop(data, n, S, V, lo, hi, st) ==
    IF lo > hi THEN st
    ELSE IF lo = hi THEN StepBody(data, n, S, V, lo, st)
    ELSE LET mid == (lo + hi) \div 2
         IN  Only({StepLoop(data, n, S, V, mid + 1, hi, half) :
                      half \in {StepLoop(data, n, S, V, lo, mid, st)}})

\* steps after the loop: "let steps = 0; let cross = false;
\* for (let i = 1; i < data.length; i++)" starts at the second sample, which
\* is index 2 of a 1-based sequence (app.js:373-379)
CountSteps(data) ==
    Only({StepLoop(data, Len(data), S, V, 2, Len(data),
                   [steps |-> 0, cross |-> FALSE]).steps :
             S \in {Sum(data)}, V \in {VarianceNum(data)}})

\* Math.floor in place of Math.round
RawSpmFloor(steps, durationMs) == (60000 * steps) \div durationMs

\* Math.round((steps / (durationMs / 1000)) * 60), app.js:381
RawSpm(steps, durationMs) == Round(60000 * steps, durationMs)

\* pop() in place of shift(): the newest value is dropped, not the oldest
PushHistoryPop(history, rawSpm) ==
    LET pushed == Append(history, rawSpm)
    IN  IF Len(pushed) > 3 THEN SubSeq(pushed, 1, 3) ELSE pushed

\* spmHistory.push(rawSpm); if (spmHistory.length > 3) spmHistory.shift();
\* app.js:382-383
PushHistory(history, rawSpm) ==
    LET pushed == Append(history, rawSpm)
    IN  IF Len(pushed) > 3 THEN Tail(pushed) ELSE pushed

\* Math.floor in place of Math.round
SmoothedFloor(history) == Sum(history) \div Len(history)

\* Math.round(spmHistory.reduce((a, b) => a + b) / spmHistory.length),
\* app.js:384
Smoothed(history) == Round(Sum(history), Len(history))

\* a stationary frame's raw cadence 0 goes through the smoother like any other
calculateSPMPushZero(data, durationMs, history) ==
    Only({LET rawSpm == RawSpm(steps, durationMs)
              hist   == PushHistory(history, rawSpm)
          IN  [ret |-> Smoothed(hist), history |-> hist,
               stationary |-> IsStationary(data), steps |-> steps,
               rawSpm |-> rawSpm] :
             steps \in {IF IsStationary(data) THEN 0 ELSE CountSteps(data)}})

\* The call calculateSPM(data, durationMs) with spmHistory = history: the
\* value returned and the spmHistory it leaves, with the locals of the call.
calculateSPM(data, durationMs, history) ==
    IF IsStationary(data)
    THEN [ret |-> 0, history |-> history, stationary |-> TRUE,
          steps |-> 0, rawSpm |-> 0]
    ELSE Only({LET rawSpm == RawSpm(steps, durationMs)
                   hist   == PushHistory(history, rawSpm)
               IN  [ret |-> Smoothed(hist), history |-> hist,
                    stationary |-> FALSE, steps |-> steps, rawSpm |-> rawSpm] :
                  steps \in {CountSteps(data)}})

-----------------------------------------------------------------------------
(* updateSyncDisplay, app.js:402-420 *)

HIGH   == "#1DB954"
NORMAL == "#333"

\* the Math.max(0, ...) left out
SyncRateUnfloored(spm, bpm) == 100 - Abs(spm - bpm)

\* Math.max(0, 100 - Math.abs(spm - currentSongBpm)), app.js:408-409
SyncRate(spm, bpm) == Max(0, 100 - Abs(spm - bpm))

\* >= in place of >
CircleColorFrom90(syncRate) == IF syncRate >= 90 THEN HIGH ELSE NORMAL

\* syncRate > 90 ? "#1DB954" : "#333", app.js:417
CircleColor(syncRate) == IF syncRate > 90 THEN HIGH ELSE NORMAL

\* the guard of app.js:407
SyncShown(spm, bpm) == spm > 0 /\ bpm > 0

\* The three elements after updateSyncDisplay(spm), given what they showed.
updateSyncDisplay(spm, bpm, oldSync, oldColor) ==
    IF SyncShown(spm, bpm)
    THEN [spmText |-> spm, syncText |-> Some(SyncRate(spm, bpm)),
          circleColor |-> CircleColor(SyncRate(spm, bpm))]
    ELSE [spmText |-> spm, syncText |-> oldSync, circleColor |-> oldColor]

-----------------------------------------------------------------------------
(* handleAcceleration, app.js:345-363 *)

\* !acc || acc.x === null, app.js:347
Rejected(ev) == ~ev.hasAcc \/ ev.x = None

\* c ** 2 for an axis reading c, null ** 2 being 0
Squared(c) == IF c = None THEN 0 ELSE c[1] * c[1]

\* Math.sqrt(acc.x ** 2 + acc.y ** 2 + acc.z ** 2), app.js:349
Norm(ev) == Sqrt(Squared(ev.x) + Squared(ev.y) + Squared(ev.z))

\* ?? in place of ||: only an absent interval counts as 20 ms
IntervalOfNullish(ev) == IF ev.interval = None THEN 20 ELSE ev.interval[1]

\* ev.interval || 20, app.js:351: an absent or zero interval counts as 20 ms
IntervalOf(ev) ==
    IF ev.interval = None \/ ev.interval = Some(0) THEN 20 ELSE ev.interval[1]

\* a frame is processed one sample late
FrameReadyLate(len) == len > NUM_DATA_PER_FRAME

\* normData.length >= NUM_DATA_PER_FRAME, app.js:353
FrameReady(len) == len >= NUM_DATA_PER_FRAME

\* call before any frame: no data
NoCall == [data |-> <<>>, intervals |-> <<>>, durationMs |-> 0,
           before |-> <<>>, bpm |-> 0, shown |-> <<None, "">>,
           stationary |-> TRUE, steps |-> 0, rawSpm |-> 0, ret |-> 0]

\* intervalData is not emptied after a frame
handleAccelerationKeepsIntervals(ev) ==
    IF Rejected(ev)
    THEN UNCHANGED <<normData, intervalData, spmHistory, spmText, syncText,
                     circleColor, frames, call, raws, accepted>>
    ELSE \E data \in {Append(normData, Norm(ev))},
            intervals \in {Append(intervalData, IntervalOf(ev))} :
         IF FrameReady(Len(data))
         THEN \E totalDurationMs \in {Sum(intervals)} :
              \E r \in {calculateSPM(data, totalDurationMs, spmHistory)} :
              \E d \in {updateSyncDisplay(r.ret, currentSongBpm,
                                          syncText, circleColor)} :
                  /\ spmHistory' = r.history
                  /\ spmText' = Some(d.spmText)
                  /\ syncText' = d.syncText
                  /\ circleColor' = d.circleColor
                  /\ normData' = <<>>
                  /\ intervalData' = intervals
                  /\ frames' = frames + 1
                  /\ call' = [data |-> data, intervals |-> intervals,
                              durationMs |-> totalDurationMs,
                              before |-> spmHistory, bpm |-> currentSongBpm,
                              shown |-> <<syncText, circleColor>>,
                              stationary |-> r.stationary, steps |-> r.steps,
                              rawSpm |-> r.rawSpm, ret |-> r.ret]
                  /\ raws' = IF r.stationary THEN raws
                             ELSE Append(raws, r.rawSpm)
                  /\ accepted' = accepted + 1
         ELSE /\ normData' = data
              /\ intervalData' = intervals
              /\ accepted' = accepted + 1
              /\ UNCHANGED <<spmHistory, spmText, syncText, circleColor,
                             frames, call, raws>>

\* The listener of devicemotion, app.js:345-363, called with the event ev.
handleAcceleration(ev) ==
    IF Rejected(ev)
    THEN UNCHANGED <<normData, intervalData, spmHistory, spmText, syncText,
                     circleColor, frames, call, raws, accepted>>
    ELSE \E data \in {Append(normData, Norm(ev))},
            intervals \in {Append(intervalData, IntervalOf(ev))} :
         IF FrameReady(Len(data))
         THEN \E totalDurationMs \in {Sum(intervals)} :
              \E r \in {calculateSPM(data, totalDurationMs, spmHistory)} :
              \E d \in {updateSyncDisplay(r.ret, currentSongBpm,
                                          syncText, circleColor)} :
                  /\ spmHistory' = r.history
                  /\ spmText' = Some(d.spmText)
                  /\ syncText' = d.syncText
                  /\ circleColor' = d.circleColor
                  /\ normData' = <<>>
                  /\ intervalData' = <<>>
                  /\ frames' = frames + 1
                  /\ call' = [data |-> data, intervals |-> intervals,
                              durationMs |-> totalDurationMs,
                              before |-> spmHistory, bpm |-> currentSongBpm,
                              shown |-> <<syncText, circleColor>>,
                              stationary |-> r.stationary, steps |-> r.steps,
                              rawSpm |-> r.rawSpm, ret |-> r.ret]
                  /\ raws' = IF r.stationary THEN raws
                             ELSE Append(raws, r.rawSpm)
                  /\ accepted' = accepted + 1
         ELSE /\ normData' = data
              /\ intervalData' = intervals
              /\ accepted' = accepted + 1
              /\ UNCHANGED <<spmHistory, spmText, syncText, circleColor,
                             frames, call, raws>>

-----------------------------------------------------------------------------
(* updateSongBpm, app.js:388-399 *)

\* The statements of updateSongBpm that can throw, and those inside its
\* try block (app.js:389-398): all of them.
PollSteps == {"fetch", "json", "read"}
TryBlock  == {"fetch", "json", "read"}

\* An exception thrown at step leaves the call uncaught.
Escapes(step) == step \notin TryBlock

\* if (data.bpm), app.js:392: absent, null and 0 are falsy
HasBpm(data) == data.bpm # None /\ data.bpm # Some(0)

\* only the first tempo fetched is stored
BpmAfterFirstWins(data, bpm) ==
    IF HasBpm(data) /\ bpm = 0 THEN data.bpm[1] ELSE bpm

\* a payload without bpm clears the tempo
BpmAfterReset(data, bpm) == IF HasBpm(data) THEN data.bpm[1] ELSE 0

\* currentSongBpm after "if (data.bpm) currentSongBpm = data.bpm",
\* app.js:392-393
BpmAfter(data, bpm) == IF HasBpm(data) THEN data.bpm[1] ELSE bpm

\* #bpm-val after app.js:394-396
BpmTextAfter(data, text) == IF HasBpm(data) THEN Some(data.bpm[1]) ELSE text

\* The timer callback: updateSongBpm runs up to its first await (app.js:390).
PollStart ==
    /\ fetching' = fetching + 1
    /\ UNCHANGED <<parsing, currentSongBpm, bpmText, unhandled, outcome,
                   stored>>

\* fetch() resolved with a response; the call awaits res.json() (app.js:391).
FetchResolved ==
    /\ fetching > 0
    /\ fetching' = fetching - 1
    /\ parsing' = parsing + 1
    /\ UNCHANGED <<currentSongBpm, bpmText, unhandled, outcome, stored>>

\* fetch() rejected (network error): control goes to the catch (app.js:398).
FetchRejected ==
    /\ fetching > 0
    /\ fetching' = fetching - 1
    /\ unhandled' = (unhandled \/ Escapes("fetch"))
    /\ outcome' = "rejected"
    /\ UNCHANGED <<parsing, currentSongBpm, bpmText, stored>>

\* res.json() rejected: the body is not JSON.
JsonRejected ==
    /\ parsing > 0
    /\ parsing' = parsing - 1
    /\ unhandled' = (unhandled \/ Escapes("json"))
    /\ outcome' = "invalid"
    /\ UNCHANGED <<fetching, currentSongBpm, bpmText, stored>>

\* res.json() resolved with JSON null: reading data.bpm throws a TypeError.
JsonNull ==
    /\ parsing > 0
    /\ parsing' = parsing - 1
    /\ unhandled' = (unhandled \/ Escapes("read"))
    /\ outcome' = "invalid"
    /\ UNCHANGED <<fetching, currentSongBpm, bpmText, stored>>

\* res.json() resolved with an object; app.js:392-397.
JsonResolved(data) ==
    /\ parsing > 0
    /\ parsing' = parsing - 1
    /\ currentSongBpm' = BpmAfter(data, currentSongBpm)
    /\ bpmText' = BpmTextAfter(data, bpmText)
    /\ outcome' = IF HasBpm(data) THEN "stored" ELSE "nobpm"
    /\ stored' = IF HasBpm(data)
                 THEN Some([bpm |-> data.bpm[1],
                            others |-> fetching + parsing - 1])
                 ELSE stored
    /\ UNCHANGED <<fetching, unhandled>>

-----------------------------------------------------------------------------
(* The environment: the motion sensor and the tempo endpoint *)

MaxFrames == 2      \* Spec: frames processed in one run
MaxPolls  == 2      \* Spec: timer ticks in one run
MaxRun    == 4      \* SpecMotion: frames processed in one run

\* A gait is a periodic motion: the acceleration is peak during `count`
\* excursions of `width` samples, the first at sample `first` and then every
\* `period` samples, and rest otherwise; the sensor reports the interval
\* `interval`, and `jitter` on every fourth event.
Gait(rest, peak, first, period, width, count, interval, jitter) ==
    [rest |-> rest, peak |-> peak, first |-> first, period |-> period,
     width |-> width, count |-> count, interval |-> interval,
     jitter |-> jitter]

InPeak(g, i) ==
    /\ i >= g.first
    /\ (i - g.first) % g.period < g.width
    /\ (i - g.first) \div g.period < g.count

\* The i-th motion event of a frame walked with gait g.
Reading(g, i) ==
    LET a == IF InPeak(g, i) THEN g.peak ELSE g.rest
    IN  [hasAcc |-> TRUE, x |-> Some(a[1]), y |-> Some(a[2]),
         z |-> Some(a[3]),
         interval |-> IF i % 4 = 0 THEN g.jitter ELSE g.interval]

Still  == Gait(<<3, 4, 0>>, <<3, 4, 0>>, 1, 1, 1, 0, None, None)
Walk   == Gait(<<0, 0, 0>>, <<12, 16, 0>>, 10, 25, 5, 8, None, Some(20))
Stroll == Gait(<<0, 0, 0>>, <<12, 16, 0>>, 10, 30, 5, 6, Some(0), None)

Gaits == {Still, Walk, Stroll}

\* Events with no acceleration object, or a null x reading.
Malformed ==
    {[hasAcc |-> FALSE, x |-> None, y |-> None, z |-> None, interval |-> None],
     [hasAcc |-> TRUE, x |-> None, y |-> None, z |-> None,
      interval |-> Some(20)]}

\* Bodies the tempo endpoint answers with.
Payloads == {[bpm |-> None], [bpm |-> Some(0)], [bpm |-> Some(120)],
             [bpm |-> Some(130)]}

-----------------------------------------------------------------------------
(* Actions *)

pollVars    == <<fetching, parsing, currentSongBpm, bpmText, unhandled,
                 outcome, stored>>
motionVars  == <<normData, intervalData, spmHistory, spmText, syncText,
                 circleColor, frames, call, raws, accepted>>

\* startSensor, app.js:328-342
startSensor ==
    /\ sensor = "idle"
    /\ \E needsPermission \in BOOLEAN :
           sensor' = IF needsPermission THEN "asking" ELSE "on"
    /\ timer' = TRUE
    /\ UNCHANGED <<gait, polls, flawed, pageVars, serverVars>>
    /\ UNCHANGED pollVars
    /\ UNCHANGED motionVars

\* the then-callback of requestPermission, app.js:330-335
PermissionAnswered ==
    /\ sensor = "asking"
    /\ \E answer \in {"granted", "denied"} :
           sensor' = IF answer = "granted" THEN "on" ELSE "denied"
    /\ UNCHANGED <<timer, gait, polls, flawed, pageVars, serverVars>>
    /\ UNCHANGED pollVars
    /\ UNCHANGED motionVars

\* the listener is registered whatever the answer to the permission request
devicemotionUnasked(g) ==
    /\ sensor \in {"on", "denied"}
    /\ gait' = g
    /\ handleAcceleration(Reading(g, Len(normData) + 1))
    /\ UNCHANGED <<sensor, timer, polls, flawed, pageVars, serverVars>>
    /\ UNCHANGED pollVars

\* a call of updateSongBpm that awaits res.json() resumes inside the handler
devicemotionInterleaved(g) ==
    /\ sensor = "on"
    /\ gait' = g
    /\ handleAcceleration(Reading(g, Len(normData) + 1))
    /\ UNCHANGED <<sensor, timer, polls, flawed, pageVars, serverVars>>
    /\ IF parsing > 0
       THEN \E data \in Payloads : JsonResolved(data)
       ELSE UNCHANGED pollVars

\* One devicemotion event of gait g delivered to the listener (app.js:332,
\* 337).
devicemotion(g) ==
    /\ sensor = "on"
    /\ gait' = g
    /\ handleAcceleration(Reading(g, Len(normData) + 1))
    /\ UNCHANGED <<sensor, timer, polls, flawed, pageVars, serverVars>>
    /\ UNCHANGED pollVars

\* The walker keeps a gait for a frame and picks the next one from gaits.
NextGaits(gaits) == IF normData = <<>> THEN gaits ELSE {gait}

Motion ==
    /\ frames < MaxFrames
    /\ \E g \in NextGaits(Gaits) : devicemotion(g)

\* A devicemotion event the handler rejects.
MalformedMotion ==
    /\ sensor = "on"
    /\ \E ev \in Malformed : handleAcceleration(ev)
    /\ UNCHANGED <<sensor, timer, polls, gait, flawed, pageVars, serverVars>>
    /\ UNCHANGED pollVars

\* setInterval(updateSongBpm, 5000), app.js:341
Tick ==
    /\ timer
    /\ polls < MaxPolls
    /\ polls' = polls + 1
    /\ PollStart
    /\ UNCHANGED <<sensor, timer, gait, flawed, pageVars, serverVars>>
    /\ UNCHANGED motionVars

\* a poll step that also empties the two buffers
PollStepFlushes ==
    /\ \/ FetchResolved
       \/ FetchRejected
       \/ JsonRejected
       \/ JsonNull
       \/ \E data \in Payloads : JsonResolved(data)
    /\ normData' = <<>>
    /\ intervalData' = <<>>
    /\ UNCHANGED <<sensor, timer, gait, polls, flawed, spmHistory, spmText,
                   syncText, circleColor, frames, call, raws, accepted,
                   pageVars, serverVars>>

\* A call of updateSongBpm resumes after one of its awaits.
PollStep ==
    /\ \/ FetchResolved
       \/ FetchRejected
       \/ JsonRejected
       \/ JsonNull
       \/ \E data \in Payloads : JsonResolved(data)
    /\ UNCHANGED <<sensor, timer, gait, polls, flawed, pageVars, serverVars>>
    /\ UNCHANGED motionVars

\* Page and server as started, whatever the server's credentials.
Loaded ==
    /\ normData = <<>>
    /\ intervalData = <<>>
    /\ spmHistory = <<>>
    /\ currentSongBpm = 0
    /\ sensor = "idle"
    /\ timer = FALSE
    /\ fetching = 0
    /\ parsing = 0
    /\ unhandled = FALSE
    /\ outcome = "none"
    /\ spmText = None
    /\ syncText = None
    /\ circleColor = ""
    /\ bpmText = None
    /\ gait = Still
    /\ polls = 0
    /\ frames = 0
    /\ call = NoCall
    /\ raws = <<>>
    /\ accepted = 0
    /\ stored = None
    /\ flawed = None
    /\ PageInit
    /\ ServerInit

Init ==
    /\ Loaded
    /\ credentials = TRUE

Next ==
    \/ startSensor
    \/ PermissionAnswered
    \/ Motion
    \/ MalformedMotion
    \/ Tick
    \/ PollStep

Spec == Init /\ [][Next]_vars

-----------------------------------------------------------------------------
(* SpecMotion: the sensor alone, over longer walks *)

Amble  == Gait(<<1, 2, 2>>, <<12, 16, 0>>, 1, 40, 3, 5, Some(10), Some(30))
Tremor == Gait(<<1, 2, 2>>, <<2, 3, 6>>, 1, 25, 5, 8, None, None)

RunGaits == {Still, Tremor, Walk, Stroll, Amble}

LongMotion ==
    /\ frames < MaxRun
    /\ \E g \in NextGaits(RunGaits) : devicemotion(g)

NextMotion ==
    \/ startSensor
    \/ PermissionAnswered
    \/ LongMotion
    \/ MalformedMotion

SpecMotion == Init /\ [][NextMotion]_vars

-----------------------------------------------------------------------------
(* SpecFrame: the event that completes a frame, over many frames, histories *)
(* and tempos.  Each initial state is the program one event before the end *)
(* of a frame.                                                             *)

Rests     == {<<0, 0, 0>>, <<1, 2, 2>>}
Peaks     == {<<12, 16, 0>>, <<2, 3, 6>>}
Firsts    == {1, 2, 10}
Periods   == {18, 25}
Widths    == {1, 2, 5}
Counts    == {0, 5, 8, 11}
Reports   == {<<None, None>>, <<Some(0), Some(30)>>, <<Some(16), Some(16)>>,
              <<Some(30), None>>}

FrameGaits ==
    {Gait(rest, peak, first, period, width, count, rep[1], rep[2]) :
        rest \in Rests, peak \in Peaks, first \in Firsts, period \in Periods,
        width \in Widths, count \in Counts, rep \in Reports}

Histories == {<<>>, <<100>>, <<100, 110>>, <<100, 110, 90>>, <<15, 120, 135>>,
              <<94>>, <<107, 0, 87>>}
Tempos    == {0, 20, 90, 109, 110, 111, 120, 135, 250}

\* A walk with short pauses: the acceleration dips to 0 for 5 samples in
\* every 25 and is 2.0 m/s^2 otherwise.  Variance 0.64, and T = 2.16 is above
\* every sample.
Sway == Gait(<<12, 16, 0>>, <<0, 0, 0>>, 10, 25, 5, 8, None, None)

FrameRunGaits == RunGaits \cup {Sway}

\* What #sync-rate and #sync-circle can show once spmHistory = history.
PriorSync(history) ==
    IF history = <<>> THEN {<<None, "">>}
    ELSE {<<None, "">>, <<Some(100), HIGH>>, <<Some(85), NORMAL>>}

FrameInputs ==
    {[g |-> g, history |-> h, bpm |-> t, sync |-> sy] :
        g \in FrameGaits, h \in {<<>>, <<100, 110, 90>>}, t \in {0, 120},
        sy \in {<<None, "">>}}
    \cup
    UNION {{[g |-> g, history |-> h, bpm |-> t, sync |-> sy] :
               g \in FrameRunGaits, t \in Tempos, sy \in PriorSync(h)} :
           h \in Histories}

InitFrame ==
    \E in \in FrameInputs :
        /\ normData = [i \in 1..(NUM_DATA_PER_FRAME - 1) |->
                          Norm(Reading(in.g, i))]
        /\ intervalData = [i \in 1..(NUM_DATA_PER_FRAME - 1) |->
                              IntervalOf(Reading(in.g, i))]
        /\ spmHistory = in.history
        /\ currentSongBpm = in.bpm
        /\ sensor = "on"
        /\ timer = TRUE
        /\ fetching = 0
        /\ parsing = 0
        /\ unhandled = FALSE
        /\ outcome = IF in.bpm = 0 THEN "none" ELSE "stored"
        /\ spmText = IF in.history = <<>> THEN None
                     ELSE Some(Smoothed(in.history))
        /\ syncText = in.sync[1]
        /\ circleColor = in.sync[2]
        /\ bpmText = IF in.bpm = 0 THEN None ELSE Some(in.bpm)
        /\ gait = in.g
        /\ polls = IF in.bpm = 0 THEN 0 ELSE 1
        /\ frames = Len(in.history)
        /\ call = NoCall
        /\ raws = in.history
        /\ accepted = NUM_DATA_PER_FRAME * Len(in.history)
                          + NUM_DATA_PER_FRAME - 1
        /\ stored = IF in.bpm = 0 THEN None
                    ELSE Some([bpm |-> in.bpm, others |-> 0])
        /\ flawed = None
        /\ PageInit
        /\ ServerInit
        /\ credentials = TRUE

\* The event that brings the buffer to NUM_DATA_PER_FRAME samples.
LastSample ==
    /\ Len(normData) = NUM_DATA_PER_FRAME - 1
    /\ devicemotion(gait)

\* Events with a part missing: no acceleration object, or an axis reading
\* that is null.
Flawed ==
    {[hasAcc |-> FALSE, x |-> None, y |-> None, z |-> None,
      interval |-> Some(20)],
     [hasAcc |-> TRUE, x |-> None, y |-> Some(3), z |-> Some(4),
      interval |-> Some(20)],
     [hasAcc |-> TRUE, x |-> Some(3), y |-> None, z |-> Some(4),
      interval |-> Some(20)],
     [hasAcc |-> TRUE, x |-> Some(12), y |-> Some(16), z |-> None,
      interval |-> Some(20)]}

\* An event with a part missing arrives when the buffer lacks one sample.
LastSampleFlawed ==
    /\ sensor = "on"
    /\ Len(normData) = NUM_DATA_PER_FRAME - 1
    /\ gait \in FrameRunGaits
    /\ flawed = None
    /\ \E ev \in Flawed :
           /\ handleAcceleration(ev)
           /\ flawed' = Some(ev)
    /\ UNCHANGED <<sensor, timer, polls, gait, pageVars, serverVars>>
    /\ UNCHANGED pollVars

NextFrame ==
    \/ LastSample
    \/ LastSampleFlawed

SpecFrame == InitFrame /\ [][NextFrame]_vars

-----------------------------------------------------------------------------
(* SpecPage: the session check and the web player, app.js:72-110, 240-325 *)

MaxTransfers == 2

cadenceVars == <<sensor, timer, gait, polls, flawed, pollVars, motionVars>>

\* what the player side of the page leaves alone
offPage == <<cadenceVars, serverVars>>

\* only the state.player guard is kept
PassesGuardsPlayerOnly(st) == st.player = None

\* Neither "if (state.player) return" nor "if (!state.authenticated) return"
\* is taken, app.js:241-247.
PassesGuards(st) == st.player = None /\ st.authenticated

\* The call initPlayer() made by `by` when state is st, up to its first
\* await (app.js:240-250).
initPlayer(by, st) ==
    /\ tokenWait' = IF PassesGuards(st) THEN tokenWait + 1 ELSE tokenWait
    /\ initCalls' = Append(initCalls, [by |-> by, passed |-> PassesGuards(st)])

\* transferPlayback() up to its await, app.js:93-100
transferPlayback(st) ==
    IF st.deviceId = None
    THEN /\ status' = "Player not ready yet"
         /\ UNCHANGED transfers
    ELSE /\ transfers' = transfers + 1
         /\ UNCHANGED status

\* document's DOMContentLoaded listener: checkSession() up to its await
\* (app.js:77-79, 323-325)
DOMContentLoaded ==
    /\ session = "unloaded"
    /\ session' = "awaiting"
    /\ UNCHANGED <<state, tokenWait, transfers, section, status, built,
                   initCalls>>
    /\ UNCHANGED offPage

\* apiGet("/api/me") resolved with profile: app.js:80-85, and the catch of
\* app.js:86-90 when profile is null and reading profile.display_name throws.
SessionResolved(profile) ==
    /\ session = "awaiting"
    /\ session' = "done"
    /\ IF profile = None
       THEN /\ state' = [state EXCEPT !.authenticated = FALSE]
            /\ section' = "login"
            /\ status' = "Not connected"
            /\ UNCHANGED <<tokenWait, initCalls>>
       ELSE /\ state' = [state EXCEPT !.authenticated = TRUE]
            /\ section' = "app"
            /\ status' = "Connected"
            /\ IF state.sdkReady
               THEN initPlayer("checkSession", state')
               ELSE UNCHANGED <<tokenWait, initCalls>>
    /\ UNCHANGED <<transfers, built>>
    /\ UNCHANGED offPage

\* apiGet("/api/me") threw: the catch of app.js:86-90
SessionRejected ==
    /\ session = "awaiting"
    /\ session' = "done"
    /\ state' = [state EXCEPT !.authenticated = FALSE]
    /\ section' = "login"
    /\ status' = "Not connected"
    /\ UNCHANGED <<tokenWait, transfers, built, initCalls>>
    /\ UNCHANGED offPage

\* window.onSpotifyWebPlaybackSDKReady, app.js:318-321; the SDK calls it once
onSpotifyWebPlaybackSDKReady ==
    /\ ~state.sdkReady
    /\ state' = [state EXCEPT !.sdkReady = TRUE]
    /\ initPlayer("sdk", state')
    /\ UNCHANGED <<session, transfers, section, status, built>>
    /\ UNCHANGED offPage

\* fetchAccessToken() resolved in initPlayer: the player is constructed,
\* connected and stored, app.js:255-304
TokenResolved ==
    /\ tokenWait > 0
    /\ tokenWait' = tokenWait - 1
    /\ built' = Append(built, state.authenticated)
    /\ state' = [state EXCEPT !.player = Some(Len(built) + 1)]
    /\ UNCHANGED <<session, transfers, section, status, initCalls>>
    /\ UNCHANGED offPage

\* fetchAccessToken() threw in initPlayer: return, app.js:251-253
TokenRejected ==
    /\ tokenWait > 0
    /\ tokenWait' = tokenWait - 1
    /\ UNCHANGED <<state, session, transfers, section, status, built,
                   initCalls>>
    /\ UNCHANGED offPage

\* the "ready" listener of a connected player, app.js:268-272
PlayerReady ==
    /\ built # <<>>
    /\ transfers < MaxTransfers
    /\ state' = [state EXCEPT !.deviceId = Some("device")]
    /\ transfers' = transfers + 1
    /\ status' = "Web player ready"
    /\ UNCHANGED <<session, tokenWait, section, built, initCalls>>
    /\ UNCHANGED offPage

\* a click on #transfer, app.js:308
TransferClick ==
    /\ transfers < MaxTransfers
    /\ transferPlayback(state)
    /\ UNCHANGED <<state, session, tokenWait, section, built, initCalls>>
    /\ UNCHANGED offPage

\* apiSend("/api/transfer") finished in transferPlayback, app.js:101-109
TransferDone ==
    /\ transfers > 0
    /\ transfers' = transfers - 1
    /\ \E result \in {"ok", "401", "error"} :
           /\ status' = CASE result = "ok" -> "Playback transferred to browser"
                          [] result = "401" -> "Please connect to Spotify"
                          [] OTHER -> "Transfer failed. Try again."
           /\ section' = IF result = "401" THEN "login" ELSE section
    /\ UNCHANGED <<state, session, tokenWait, built, initCalls>>
    /\ UNCHANGED offPage

\* a click on #toggle, app.js:310-316
ToggleClick ==
    /\ status' = IF state.player = None THEN "Player not ready yet"
                 ELSE status
    /\ UNCHANGED <<state, session, tokenWait, transfers, section, built,
                   initCalls>>
    /\ UNCHANGED offPage

\* the "not_ready" listener of a connected player, app.js:291-293
PlayerNotReady ==
    /\ built # <<>>
    /\ status' = "Web player disconnected"
    /\ UNCHANGED <<state, session, tokenWait, transfers, section, built,
                   initCalls>>
    /\ UNCHANGED offPage

\* the "authentication_error" listener of a connected player,
\* app.js:278-281
PlayerAuthError ==
    /\ built # <<>>
    /\ section' = "login"
    /\ status' = "Player auth error"
    /\ UNCHANGED <<state, session, tokenWait, transfers, built, initCalls>>
    /\ UNCHANGED offPage

\* the "initialization_error", "account_error" and "playback_error"
\* listeners of a connected player, app.js:274-276, 283-289
PlayerErrors == {"Player init error", "Account error", "Playback error"}

PlayerError ==
    /\ built # <<>>
    /\ \E message \in PlayerErrors : status' = message
    /\ UNCHANGED <<state, session, tokenWait, transfers, section, built,
                   initCalls>>
    /\ UNCHANGED offPage

\* What /api/me can be answered with: a profile, or JSON null.
Profiles == {Some("user"), None}

NextPage ==
    \/ DOMContentLoaded
    \/ \E profile \in Profiles : SessionResolved(profile)
    \/ SessionRejected
    \/ onSpotifyWebPlaybackSDKReady
    \/ TokenResolved
    \/ TokenRejected
    \/ PlayerReady
    \/ TransferClick
    \/ TransferDone
    \/ ToggleClick
    \/ PlayerNotReady
    \/ PlayerAuthError
    \/ PlayerError

SpecPage == Init /\ [][NextPage]_vars

-----------------------------------------------------------------------------
(* SpecServer: the OAuth routes of the server, part_000:22-25, 36-38, *)
(* 120-183                                                             *)

MaxLogins == 2
MaxReplies == 4
MaxTicks == 2

\* what the server leaves alone
offServer == <<cadenceVars, pageVars>>

\* the loose comparison state != oauthState, for which undefined equals null
StateRefusedLoose(st, oauth) == st # oauth

\* state !== oauthState, part_000:160, for the state parameter st of the
\* query (absent: undefined) and oauthState = oauth (absent: null).  A query
\* parameter is never null, so nothing is identical to a null oauthState.
StateRefused(st, oauth) == oauth = None \/ st # oauth

\* !code, part_000:160: an absent or empty code
CodeMissing(code) == code = None \/ code = Some("")

\* The response sent for the request [route, code, state] that was compared
\* with oauthState = latest.
Sent(route, sc, code, st, latest) ==
    [n |-> reply.n + 1, route |-> route, status |-> sc, code |-> code,
     state |-> st, latest |-> latest]

\* hasValidAccessToken, part_000:36-38
hasValidAccessToken ==
    accessToken # None /\ now < accessTokenExpiresAt - 60000

\* GET /login, part_000:136-155; crypto.randomBytes yields any state
OAuthStates == {"s1", "s2"}

login ==
    /\ logins < MaxLogins
    /\ reply.n < MaxReplies
    /\ logins' = logins + 1
    /\ IF ~credentials
       THEN /\ reply' = Sent("login", 500, None, None, oauthState)
            /\ UNCHANGED oauthState
       ELSE \E fresh \in OAuthStates :
                /\ oauthState' = Some(fresh)
                /\ reply' = Sent("login", 302, None, Some(fresh), oauthState)
    /\ UNCHANGED <<accessToken, refreshToken, accessTokenExpiresAt,
                   credentials, exchanges, refreshes, now>>
    /\ UNCHANGED offServer

\* GET /callback up to its await, part_000:157-165
callback(code, st) ==
    /\ reply.n + Len(exchanges) < MaxReplies
    /\ IF CodeMissing(code) \/ StateRefused(st, oauthState)
       THEN /\ reply' = Sent("callback", 400, code, st, oauthState)
            /\ UNCHANGED exchanges
       ELSE /\ exchanges' = Append(exchanges, [code |-> code, state |-> st,
                                               latest |-> oauthState])
            /\ UNCHANGED reply
    /\ UNCHANGED <<accessToken, refreshToken, accessTokenExpiresAt, oauthState,
                   credentials, refreshes, now, logins>>
    /\ UNCHANGED offServer

\* the sequence s without its i-th element
Without(s, i) == [k \in 1..(Len(s) - 1) |-> IF k < i THEN s[k] ELSE s[k + 1]]

\* exchangeCodeForToken resolved with data for the i-th waiting request,
\* part_000:166-169
ExchangeResolved(i, data) ==
    /\ accessToken' = Some(data.access_token)
    /\ refreshToken' = IF data.refresh_token = None THEN refreshToken
                       ELSE data.refresh_token
    /\ accessTokenExpiresAt' = now + data.expires_in * 1000
    /\ reply' = Sent("callback", 302, exchanges[i].code, exchanges[i].state,
                     exchanges[i].latest)
    /\ exchanges' = Without(exchanges, i)
    /\ UNCHANGED <<oauthState, credentials, refreshes, now, logins>>
    /\ UNCHANGED offServer

\* exchangeCodeForToken threw, part_000:170-173
ExchangeRejected(i) ==
    /\ reply' = Sent("callback", 500, exchanges[i].code, exchanges[i].state,
                     exchanges[i].latest)
    /\ exchanges' = Without(exchanges, i)
    /\ UNCHANGED <<accessToken, refreshToken, accessTokenExpiresAt, oauthState,
                   credentials, refreshes, now, logins>>
    /\ UNCHANGED offServer

\* GET /token up to the await of getAccessToken, part_000:120-129, 176-183
token ==
    /\ reply.n + refreshes < MaxReplies
    /\ IF hasValidAccessToken
       THEN /\ reply' = Sent("token", 200, None, None, oauthState)
            /\ UNCHANGED refreshes
       ELSE IF refreshToken = None
            THEN /\ reply' = Sent("token", 401, None, None, oauthState)
                 /\ UNCHANGED refreshes
            ELSE /\ refreshes' = refreshes + 1
                 /\ UNCHANGED reply
    /\ UNCHANGED <<accessToken, refreshToken, accessTokenExpiresAt, oauthState,
                   credentials, exchanges, now, logins>>
    /\ UNCHANGED offServer

\* refreshAccessToken resolved with data, part_000:129-133, 179
RefreshResolved(data) ==
    /\ refreshes > 0
    /\ refreshes' = refreshes - 1
    /\ accessToken' = Some(data.access_token)
    /\ accessTokenExpiresAt' = now + data.expires_in * 1000
    /\ reply' = Sent("token", 200, None, None, oauthState)
    /\ UNCHANGED <<refreshToken, oauthState, credentials, exchanges, now,
                   logins>>
    /\ UNCHANGED offServer

\* refreshAccessToken threw, part_000:180-182
RefreshRejected ==
    /\ refreshes > 0
    /\ refreshes' = refreshes - 1
    /\ reply' = Sent("token", 401, None, None, oauthState)
    /\ UNCHANGED <<accessToken, refreshToken, accessTokenExpiresAt, oauthState,
                   credentials, exchanges, now, logins>>
    /\ UNCHANGED offServer

\* Half an hour passes.
Tock ==
    /\ now < MaxTicks * 1800000
    /\ now' = now + 1800000
    /\ UNCHANGED <<accessToken, refreshToken, accessTokenExpiresAt, oauthState,
                   credentials, exchanges, refreshes, reply, logins>>
    /\ UNCHANGED offServer

\* The code and state parameters a /callback request may carry.
Codes == {None, Some(""), Some("code")}
StateParams == {None, Some("s1"), Some("s2"), Some("null")}

\* What the accounts service answers a token request with.
Grants ==
    {[access_token |-> "a1", refresh_token |-> Some("r1"), expires_in |-> 3600],
     [access_token |-> "a2", refresh_token |-> None, expires_in |-> 60]}

InitServer ==
    /\ Loaded
    /\ credentials \in BOOLEAN

NextServer ==
    \/ login
    \/ \E code \in Codes, st \in StateParams : callback(code, st)
    \/ \E i \in 1..Len(exchanges), data \in Grants : ExchangeResolved(i, data)
    \/ \E i \in 1..Len(exchanges) : ExchangeRejected(i)
    \/ token
    \/ \E data \in Grants : RefreshResolved(data)
    \/ RefreshRejected
    \/ Tock

SpecServer == InitServer /\ [][NextServer]_vars

-----------------------------------------------------------------------------
(* Properties *)

\* C1: between events the buffer holds 0..199 samples; an accepted event
\* processes a frame exactly when it is the 200th of the buffer, the frame
\* passed to calculateSPM is the buffer with that sample appended, 200
\* samples, and both buffers are empty afterwards; any other accepted event
\* only lengthens the buffer by one and processes nothing.
C1_FrameExactlyAt200 ==
    /\ [](Len(normData) \in 0..199)
    /\ [][/\ (normData' # normData) =>
                IF Len(normData) + 1 = 200
                THEN /\ frames' = frames + 1
                     /\ Len(call'.data) = 200
                     /\ SubSeq(call'.data, 1, 199) = normData
                     /\ normData' = <<>>
                     /\ intervalData' = <<>>
                ELSE /\ frames' = frames
                     /\ call' = call
                     /\ Len(normData') = Len(normData) + 1
                     /\ SubSeq(normData', 1, Len(normData)) = normData
                     /\ <<spmHistory, spmText, syncText>>'
                            = <<spmHistory, spmText, syncText>>
           /\ (frames' # frames) => (normData' # normData)]_vars

\* A frame has been processed and the next one lacks one sample.
C1_Witness ==
    /\ frames = 1
    /\ Len(call.data) = 200
    /\ Len(normData) = 199

\* The last k entries of s, all of s when it has fewer.
LastOf(s, k) == [i \in 1..(IF Len(s) < k THEN Len(s) ELSE k) |->
                    s[i + (IF Len(s) < k THEN 0 ELSE Len(s) - k)]]

\* C2: spmHistory never holds more than 3 values, and it is always the most
\* recent min(3, k) of the k raw cadences pushed so far, in push order.
C2_HistoryIsLastThree ==
    /\ Len(spmHistory) <= 3
    /\ spmHistory = LastOf(raws, 3)

\* A fourth value was pushed: the oldest one, different from the others, is
\* gone and the other three are kept in order.
C2_Witness ==
    /\ Len(raws) = 4
    /\ raws[1] # raws[2] /\ raws[2] # raws[3] /\ raws[1] # raws[4]
    /\ spmHistory = <<raws[2], raws[3], raws[4]>>

\* The population variance of data is below 0.1 (m/s^2)^2, from its
\* definition: sum of (x - mean)^2 over n, with x in tenths and the
\* divisions cleared (n*x - S is n times the deviation of x).
LowVariance(data) ==
    \E n \in {Len(data)}, S \in {Sum(data)} :
        Sum([i \in 1..n |-> (n * data[i] - S) * (n * data[i] - S)])
            < 10 * n * n * n

Constant(data) == \A i \in 1..Len(data) : data[i] = data[1]

\* r = Math.round(a / b): r - 1/2 <= a/b < r + 1/2
IsRounded(r, a, b) == 2 * r * b - b <= 2 * a /\ 2 * a < 2 * r * b + b

\* C3: a frame whose variance is below 0.1, a constant frame in particular,
\* makes calculateSPM return 0 and leaves spmHistory as it was, whatever it
\* held; the non-stationary frame after it is smoothed against that history.
C3_StationaryFrameSkipsHistory ==
    /\ []((call.data # <<>> /\ (Constant(call.data) \/ LowVariance(call.data)))
            => /\ call.ret = 0
               /\ spmHistory = call.before)
    /\ [][(/\ frames' # frames
           /\ call.data # <<>>
           /\ LowVariance(call.data)
           /\ ~LowVariance(call'.data))
          => /\ call'.before = call.before
             /\ spmHistory' = LastOf(Append(call.before, call'.rawSpm), 3)
             /\ IsRounded(call'.ret, Sum(spmHistory'), Len(spmHistory'))]_vars

\* A frame that is not constant but varies too little was processed when the
\* history held three values.
C3_Witness ==
    /\ call.data # <<>>
    /\ ~Constant(call.data)
    /\ LowVariance(call.data)
    /\ Len(call.before) = 3
    /\ spmHistory = call.before

\* The samples of the last frame above the threshold T = mean + 0.7 stdDev.
AboveT(i) ==
    Above(call.data[i], Len(call.data), Sum(call.data), VarianceNum(call.data))

\* The positions of data where a sample at or below T is followed by one
\* above T.
Transitions(data) ==
    Only({{i \in 2..n : ~Above(data[i - 1], n, S, V) /\ Above(data[i], n, S, V)} :
             n \in {Len(data)}, S \in {Sum(data)}, V \in {VarianceNum(data)}})

\* The positions from the second sample on that start an excursion for the
\* loop: the sample is above T, and every earlier sample above T (the first
\* sample left aside) has a sample below T between it and this one.
Counted(data) ==
    Only({{i \in 2..n :
              /\ Above(data[i], n, S, V)
              /\ \A j \in 2..(i - 1) :
                     Above(data[j], n, S, V)
                         => \E k \in (j + 1)..(i - 1) : Below(data[k], n, S, V)} :
             n \in {Len(data)}, S \in {Sum(data)}, V \in {VarianceNum(data)}})

Moving == call.data # <<>> /\ ~call.stationary

\* C4 as claimed: the steps of a non-stationary frame are the transitions
\* from a sample at or below T to a sample above T.
C4_StepsAreTransitions ==
    Moving => call.steps = Cardinality(Transitions(call.data))

\* C4: the steps of a non-stationary frame are the samples above T, from the
\* second sample on, that start an excursion; the first sample is not
\* examined, so an excursion under way at the start of the frame is counted
\* at the second sample although no transition takes place there.
C4_StepsAreExcursionStarts ==
    Moving => call.steps = Cardinality(Counted(call.data))

\* A frame that starts above T: one more step than transitions, and fewer
\* steps than samples above T.
C4_Witness ==
    /\ Moving
    /\ AboveT(1) /\ AboveT(2)
    /\ call.steps = Cardinality(Transitions(call.data)) + 1
    /\ call.steps >= 5
    /\ call.steps < Cardinality({i \in 1..Len(call.data) : AboveT(i)})

\* The sum of a history of one to three values.
Total(h) == h[1] + (IF Len(h) >= 2 THEN h[2] ELSE 0)
                 + (IF Len(h) >= 3 THEN h[3] ELSE 0)

\* C5: after a push the cadence returned (and shown) is the mean of the
\* history after the push, the last three raw values at most, rounded to
\* the nearest integer; pushing 90 onto 100, 110 returns 100 and pushing 120
\* onto 100, 110, 90 returns 107.
C5_SmoothedIsRoundedMean ==
    Moving =>
        /\ spmHistory = LastOf(Append(call.before, call.rawSpm), 3)
        /\ IsRounded(call.ret, Total(spmHistory), Len(spmHistory))
        /\ spmText = Some(call.ret)
        /\ (call.before = <<100, 110>> /\ call.rawSpm = 90) => call.ret = 100
        /\ (call.before = <<100, 110, 90>> /\ call.rawSpm = 120)
               => call.ret = 107

\* The fourth push of the example: 120 onto 100, 110, 90.
C5_Witness ==
    /\ Moving
    /\ call.before = <<100, 110, 90>>
    /\ call.rawSpm = 120
    /\ spmHistory = <<110, 90, 120>>
    /\ call.ret = 107

Dist(a, b) == IF a >= b THEN a - b ELSE b - a

\* The last frame yielded a cadence above 0 while a tempo was known.
Scored == call.data # <<>> /\ call.ret > 0 /\ call.bpm > 0

\* C6: for a cadence c > 0 and a known tempo t the sync score shown is
\* max(0, 100 - |c - t|): in 0..100, 100 exactly when c = t, 0 whenever
\* |c - t| >= 100; c = 120, t = 120 gives 100 and c = 150, t = 120 gives 70.
C6_SyncScore ==
    Scored =>
        \E score \in 0..100 :
            /\ syncText = Some(score)
            /\ (score = 100) <=> (call.ret = call.bpm)
            /\ Dist(call.ret, call.bpm) >= 100 => score = 0
            /\ Dist(call.ret, call.bpm) < 100
                   => score = 100 - Dist(call.ret, call.bpm)
            /\ (call.ret = 120 /\ call.bpm = 120) => score = 100
            /\ (call.ret = 150 /\ call.bpm = 120) => score = 70

\* The example c = 150, t = 120 has been computed.
C6_Witness ==
    /\ Scored
    /\ call.ret = 150
    /\ call.bpm = 120
    /\ syncText = Some(70)

\* C7 as claimed: when the last frame yielded cadence 0, or no tempo has been
\* fetched, no sync percentage is presented and the circle is not in its
\* high-sync colour.
C7_NoScoreWithoutCadenceOrTempo ==
    (call.data # <<>> /\ (call.ret = 0 \/ call.bpm = 0))
        => (syncText = None /\ circleColor # HIGH)

C9_FailedPollKeepsTempo ==
    /\ [](~unhandled)
    /\ [][(/\ fetching' + parsing' < fetching + parsing
           /\ outcome' \in {"rejected", "invalid", "nobpm"})
          => /\ currentSongBpm' = currentSongBpm
             /\ bpmText' = bpmText
             /\ UNCHANGED <<normData, intervalData, spmHistory, spmText,
                            syncText, circleColor>>]_vars

\* The second poll failed after the first stored 120, in the middle of a
\* frame: the tempo is still 120.
C9_Witness ==
    /\ polls = 2 /\ fetching = 0 /\ parsing = 0
    /\ outcome \in {"rejected", "invalid", "nobpm"}
    /\ currentSongBpm = 120
    /\ Len(normData) > 0
    /\ ~unhandled

RECURSIVE Weighted(_, _)
\* The sum of s taken value by value: each value of vals times the number of
\* places of s that hold it.
Weighted(s, vals) ==
    IF vals = {} THEN 0
    ELSE LET v == CHOOSE x \in vals : TRUE
         IN  v * Cardinality({i \in 1..Len(s) : s[i] = v})
                 + Weighted(s, vals \ {v})

\* C10: the raw cadence pushed for a non-stationary frame is
\* round(steps / durationS * 60) with durationS the sum of the 200 intervals
\* recorded with the frame's samples, over 1000; 200 samples of 20 ms give
\* 15 * steps.
C10_RawCadence ==
    Moving =>
        \E D \in {Weighted(call.intervals,
                           {call.intervals[i] : i \in 1..Len(call.intervals)})} :
            /\ Len(call.intervals) = 200
            /\ D > 0
            /\ IsRounded(call.rawSpm, 60000 * call.steps, D)
            /\ spmHistory[Len(spmHistory)] = call.rawSpm
            /\ (\A i \in 1..200 : call.intervals[i] = 20)
                   => call.rawSpm = 15 * call.steps

\* A frame whose intervals differ and whose cadence is not a whole number:
\* it was rounded up.
C10_Witness ==
    /\ Moving
    /\ \E i, j \in 1..200 : call.intervals[i] # call.intervals[j]
    /\ 2 * ((60000 * call.steps) % call.durationMs) > call.durationMs
    /\ spmHistory[Len(spmHistory)] = call.rawSpm

\* C11 as claimed: the smoother is only given raw cadences above 0: the raw
\* cadence of a non-stationary frame, which is the value appended to
\* spmHistory, is strictly positive.
C11_RawCadencePositive ==
    Moving => /\ call.rawSpm > 0
              /\ spmHistory[Len(spmHistory)] > 0

\* The positions counted by the detector that starts at the first sample with
\* crossed = false: the sample is above T, and every earlier sample above T
\* has a sample below T between it and this one.
RefCounted(data) ==
    Only({{i \in 1..n :
              /\ Above(data[i], n, S, V)
              /\ \A j \in 1..(i - 1) :
                     Above(data[j], n, S, V)
                         => \E k \in (j + 1)..(i - 1) : Below(data[k], n, S, V)} :
             n \in {Len(data)}, S \in {Sum(data)}, V \in {VarianceNum(data)}})

\* C12 as claimed: the steps of a non-stationary frame are those of the
\* detector that walks all 200 samples from the first one.
C12_StepsMatchReference ==
    Moving => call.steps = Cardinality(RefCounted(call.data))

\* steps after the iterations up to the sample at position k (1-based) of the
\* last frame
StepsThrough(k) ==
    IF k < 2 THEN 0
    ELSE Only({StepLoop(call.data, Len(call.data), S, V, 2, k,
                        [steps |-> 0, cross |-> FALSE]).steps :
                  S \in {Sum(call.data)}, V \in {VarianceNum(call.data)}})

\* The maximal runs of consecutive samples above T in the last frame, as
\* pairs <<first position, last position>>.
Runs ==
    Only({{<<a, CHOOSE b \in a..n :
                    /\ \A i \in a..b : Above(call.data[i], n, S, V)
                    /\ b = n \/ ~Above(call.data[b + 1], n, S, V)>> :
              a \in {i \in 1..n :
                        /\ Above(call.data[i], n, S, V)
                        /\ i = 1 \/ ~Above(call.data[i - 1], n, S, V)}} :
             n \in {Len(call.data)}, S \in {Sum(call.data)},
             V \in {VarianceNum(call.data)}})

\* C13: in a non-stationary frame the count rises by at most one over each
\* maximal run of samples above T, however long the run and wherever it
\* starts, so steps is at most the number of runs.
C13_OneStepPerRun ==
    Moving =>
        /\ \A run \in Runs :
               StepsThrough(run[2]) - StepsThrough(run[1] - 1) \in {0, 1}
        /\ call.steps <= Cardinality(Runs)

\* A frame with eight runs of five samples, the first starting at the first
\* sample: eight steps, not forty.
C13_Witness ==
    /\ Moving
    /\ Cardinality(Runs) = 8
    /\ \A run \in Runs : run[2] = run[1] + 4
    /\ <<1, 5>> \in Runs
    /\ call.steps = 8

\* The tempo the last successful poll delivered, 0 when none has.
Delivered == IF stored = None THEN 0 ELSE stored[1].bpm

\* C14: with polls in flight together and finishing in any order between
\* motion events, currentSongBpm is always the bpm delivered by the poll that
\* succeeded last (0, unknown, before any has), and a frame is scored against
\* exactly that value.
C14_TempoIsLastDelivered ==
    /\ [](currentSongBpm = Delivered)
    /\ [][(frames' # frames)
          => /\ call'.bpm = Delivered
             /\ (call'.ret > 0 /\ Delivered > 0)
                    => syncText' = Some(IF Dist(call'.ret, Delivered) >= 100
                                        THEN 0
                                        ELSE 100 - Dist(call'.ret, Delivered))]_vars

\* Two polls were in flight together when one of them delivered 120; a
\* frame was then scored against 120 while the other was still in flight.
C14_Witness ==
    /\ polls = 2
    /\ fetching + parsing = 1
    /\ stored = Some([bpm |-> 120, others |-> 1])
    /\ Scored
    /\ call.bpm = 120
    /\ syncText = Some(100 - Dist(call.ret, 120))

\* C15: a step of a tempo poll, whether it succeeds or fails, leaves
\* normData, intervalData and spmHistory unchanged, and a motion event,
\* frame processing included, leaves currentSongBpm unchanged.
C15_DisjointWrites ==
    [][/\ (fetching' # fetching \/ parsing' # parsing)
           => UNCHANGED <<normData, intervalData, spmHistory>>
       /\ (accepted' # accepted \/ frames' # frames)
           => UNCHANGED <<currentSongBpm, bpmText, stored>>]_vars

\* Both producers have written: a tempo is stored, a poll has since failed,
\* a frame has been processed and the next one is being filled.
C15_Witness ==
    /\ currentSongBpm = 120
    /\ outcome \in {"rejected", "invalid", "nobpm"}
    /\ frames = 1
    /\ spmHistory # <<>>
    /\ Len(normData) > 0
    /\ call.bpm = 120

\* C16 as claimed: an event with no acceleration object, or with the x, y or
\* z reading missing, leaves normData, intervalData and spmHistory unchanged
\* and processes no frame.
C16_FlawedEventRejected ==
    [][(flawed' # flawed)
       => UNCHANGED <<normData, intervalData, spmHistory, frames, call,
                      accepted>>]_vars

\* C17: after n accepted events floor(n / 200) frames have been processed
\* and the buffers hold the n mod 200 events accepted since; an accepted
\* event is appended, with its own interval, to those accepted since the
\* last frame, and the 200th of them hands exactly these 200 samples and
\* intervals to calculateSPM and leaves nothing behind, whether or not the
\* frame is stationary.
C17_BackToBackFrames ==
    /\ [](/\ frames = accepted \div 200
          /\ Len(normData) = accepted % 200
          /\ Len(intervalData) = accepted % 200)
    /\ [][(accepted' # accepted)
          => \E ev \in {Reading(gait', Len(normData) + 1)} :
             \E data \in {Append(normData, Norm(ev))},
                intervals \in {Append(intervalData, IntervalOf(ev))} :
                 /\ accepted' = accepted + 1
                 /\ IF accepted' % 200 = 0
                    THEN /\ call'.data = data
                         /\ call'.intervals = intervals
                         /\ call'.durationMs
                                = Weighted(intervals,
                                           {intervals[i] : i \in 1..200})
                         /\ normData' = <<>>
                         /\ intervalData' = <<>>
                    ELSE /\ normData' = data
                         /\ intervalData' = intervals
                         /\ call' = call]_vars

\* Three frames processed, the third one stationary, and 50 samples of the
\* fourth in the buffer.
C17_Witness ==
    /\ accepted = 650
    /\ frames = 3
    /\ call.stationary
    /\ Len(call.data) = 200
    /\ Len(normData) = 50
    /\ Len(raws) = 2

\* C18: the duration handed to calculateSPM is strictly positive: every
\* interval recorded is above 0, an event that reports no interval or an
\* interval of 0 being recorded as 20 ms.
C18_DurationPositive ==
    (call.data # <<>>) =>
        /\ \A i \in 1..200 : call.intervals[i] > 0
        /\ \A i \in 1..199 :
               Reading(gait, i).interval \in {None, Some(0)}
                   => call.intervals[i] = 20
        /\ call.durationMs > 0
        /\ \A i \in 1..Len(spmHistory) : spmHistory[i] \in Nat
        /\ call.ret \in Nat

\* A non-stationary frame all of whose events report an interval of 0 or
\* none: 4000 ms.
C18_Witness ==
    /\ Moving
    /\ flawed = None
    /\ gait.interval = Some(0)
    /\ gait.jitter = None
    /\ call.durationMs = 4000
    /\ call.steps > 0
    /\ call.rawSpm = 15 * call.steps

\* C19: once the permission request has been answered otherwise than
\* "granted" the sensor stays off: the buffers and spmHistory stay empty, no
\* cadence and no sync score are ever shown, while tempo polls go on.
C19_DeniedNeverListens ==
    /\ []((sensor = "denied")
            => /\ normData = <<>>
               /\ intervalData = <<>>
               /\ spmHistory = <<>>
               /\ spmText = None
               /\ syncText = None
               /\ circleColor = ""
               /\ frames = 0
               /\ accepted = 0)
    /\ [][(sensor = "denied") => (sensor' = "denied")]_vars

\* Permission was denied, and two polls have since stored a tempo.
C19_Witness ==
    /\ sensor = "denied"
    /\ polls = 2 /\ fetching = 0 /\ parsing = 0
    /\ outcome = "stored"
    /\ currentSongBpm = 130
    /\ bpmText = Some(130)
    /\ syncText = None

\* C20: the event that completes a frame does everything in one step: it
\* appends the 200th sample, smooths against the history it found, scores
\* against the tempo it found and empties the buffers, and no poll starts,
\* resumes or finishes within that step; no state with a full buffer is ever
\* seen.
C20_FrameStepAtomic ==
    /\ [](Len(normData) < 200 /\ Len(intervalData) < 200)
    /\ [][(frames' # frames)
          => /\ UNCHANGED <<fetching, parsing, currentSongBpm, bpmText,
                            outcome, stored, polls, unhandled>>
             /\ Len(normData) = 199
             /\ accepted' = accepted + 1
             /\ normData' = <<>>
             /\ intervalData' = <<>>
             /\ call'.before = spmHistory
             /\ call'.bpm = currentSongBpm
             /\ call'.shown = <<syncText, circleColor>>
             /\ spmHistory' = IF call'.stationary THEN spmHistory
                              ELSE LastOf(Append(spmHistory, call'.rawSpm), 3)
             /\ spmText' = Some(call'.ret)
             /\ syncText' = IF call'.ret > 0 /\ currentSongBpm > 0
                            THEN Some(IF Dist(call'.ret, currentSongBpm) >= 100
                                      THEN 0
                                      ELSE 100 - Dist(call'.ret, currentSongBpm))
                            ELSE syncText]_vars

\* A frame was processed and scored while a poll was awaiting its response.
C20_Witness ==
    /\ fetching = 1
    /\ normData = <<>>
    /\ frames = 2
    /\ Scored
    /\ call.bpm = currentSongBpm
    /\ Len(spmHistory) = 2

\* C21: whichever way the session check and the SDK-ready callback
\* interleave, at most one initPlayer call gets past the guards, at most one
\* Spotify.Player is constructed, and state.authenticated is true when it is.
C21_AtMostOnePlayer ==
    /\ Len(built) <= 1
    /\ \A i \in 1..Len(built) : built[i] = TRUE
    /\ Cardinality({i \in 1..Len(initCalls) : initCalls[i].passed}) <= 1
    /\ Len(initCalls) <= 2
    /\ (state.player # None) => (Len(built) = 1 /\ tokenWait = 0)

\* The SDK was ready first and its initPlayer call returned at the
\* authenticated guard; the session check then called initPlayer again, which
\* awaited the token and constructed the one player.
C21_Witness ==
    /\ initCalls = <<[by |-> "sdk", passed |-> FALSE],
                     [by |-> "checkSession", passed |-> TRUE]>>
    /\ built = <<TRUE>>
    /\ state.player = Some(1)
    /\ state.authenticated

\* The access token, the refresh token and the expiry time of the server.
Tokens == <<accessToken, refreshToken, accessTokenExpiresAt>>

\* C22: /callback changes the tokens only for a request that carried a code
\* and a state parameter equal to the oauthState it was compared with, which
\* is the state the most recent /login generated; a /callback before any
\* /login, or with the code or the state missing or the state different, is
\* answered 400 and leaves the three token variables unchanged.
C22_CallbackNeedsLoginState ==
    /\ []((logins = 0) => (oauthState = None /\ exchanges = <<>>
                             /\ accessToken = None /\ refreshToken = None))
    /\ [][/\ (oauthState' # oauthState)
              => /\ reply'.route = "login"
                 /\ reply'.status = 302
                 /\ oauthState' = reply'.state
          /\ (Len(exchanges') > Len(exchanges))
              => \E req \in {exchanges'[Len(exchanges')]} :
                     /\ req.latest = oauthState
                     /\ oauthState # None
                     /\ req.state = oauthState
                     /\ req.code \notin {None, Some("")}
                     /\ Tokens' = Tokens
          /\ (reply'.n # reply.n /\ reply'.route = "callback")
              => /\ (\/ reply'.code \in {None, Some("")}
                     \/ reply'.state = None
                     \/ reply'.latest = None
                     \/ reply'.state # reply'.latest)
                    => (reply'.status = 400 /\ Tokens' = Tokens)
                 /\ (Tokens' # Tokens)
                    => /\ reply'.status = 302
                       /\ reply'.code \notin {None, Some("")}
                       /\ reply'.latest # None
                       /\ reply'.state = reply'.latest]_vars

\* The tokens were written for a request whose state was the one of the
\* latest /login when it arrived; a later /login has replaced that state
\* while the code was being exchanged.
C22_Witness ==
    /\ reply.route = "callback"
    /\ reply.status = 302
    /\ reply.state = reply.latest
    /\ reply.latest = Some("s1")
    /\ oauthState = Some("s2")
    /\ accessToken = Some("a1")
    /\ refreshToken = Some("r1")

\* C23: normData and intervalData always have the same length: an accepted
\* event lengthens both by one, a frame empties both, and the duration given
\* to calculateSPM is the sum of the intervals of the 200 events whose
\* magnitudes make the frame.
C23_BuffersInStep ==
    /\ [](Len(normData) = Len(intervalData))
    /\ [][/\ (accepted' # accepted /\ frames' = frames)
              => /\ Len(normData') = Len(normData) + 1
                 /\ Len(intervalData') = Len(intervalData) + 1
          /\ (frames' # frames)
              => /\ normData' = <<>> /\ intervalData' = <<>>
                 /\ call'.data = [i \in 1..200 |-> Norm(Reading(gait', i))]
                 /\ call'.intervals
                        = [i \in 1..200 |-> IntervalOf(Reading(gait', i))]
                 /\ call'.durationMs
                        = Weighted(call'.intervals,
                                   {call'.intervals[i] : i \in 1..200})]_vars

\* Two frames done, the second with intervals of 10 and 30 ms summing to
\* 3000 ms, and 120 samples and 120 intervals in the buffers.
C23_Witness ==
    /\ frames = 2
    /\ Len(normData) = 120
    /\ Len(intervalData) = 120
    /\ Len(call.intervals) = 200
    /\ \E i, j \in 1..200 : call.intervals[i] = 10 /\ call.intervals[j] = 30
    /\ call.durationMs = 3000

=============================================================================
